---- MODULE Spec2Model ----
(***************************************************************************)
(* Model of src/util/stat.cc: the pack-format scan of a Kyoto Cabinet      *)
(* TreeDB, its tally pack[0..5], the two size estimates and the report.    *)
(***************************************************************************)
EXTENDS Integers, Sequences, FiniteSets, TLC

\* ---------------------------------------------------------------- bounds
MaxRecords == 3
MaxCount == 2

\* ------------------------------------------------------ program constants
PackSize == 6
ReportedTags == 5

\* Values a record of the store may carry (byte sequences).
Val8Tag2 == <<2, 0, 0, 0, 0, 0, 0, 0>>
Val8High == <<255, 9, 9, 9, 9, 9, 9, 9>>
Values ==
  { <<>>, Val8Tag2, Val8High,
    <<0>>, <<1, 7>>, <<2, 0, 0>>, <<3>>, <<4, 1>>, <<5, 5>>,
    <<6, 0>>, <<7, 0, 0>>, <<200>> }

RECURSIVE SeqsUpTo(_, _)
SeqsUpTo(S, n) ==
  IF n = 0 THEN { <<>> }
  ELSE LET shorter == SeqsUpTo(S, n - 1)
       IN  shorter \cup { Append(s, v) : s \in shorter, v \in S }

VARIABLES
  argc,        \* number of command line words, program name included
  canOpen,     \* whether db.open(..., OREADER) succeeds
  charSigned,  \* whether plain char is signed on the build
  store,       \* the values of the store's records, in key order
  pc,          \* position of main
  cursor,      \* whether db.cursor() has been created
  pos,         \* number of records cur->get has handed out
  pack,        \* long pack[6]
  stray,       \* indices outside pack[] that were written through
  fault,       \* cur->get returned false because of an error
  out,         \* lines written to standard output
  exitCode     \* -1 while running, else the process' exit status

vars == <<argc, canOpen, charSigned, store, pc, cursor, pos, pack, stray,
          fault, out, exitCode>>

\* --------------------------------------------------------------- helpers
Line(l, x, y) == [line |-> l, a |-> x, b |-> y]

ZeroPack == [t \in 0..(PackSize - 1) |-> 0]

\* value.at(0) is a char; used as an array index it is promoted to int.
CharToIndex(byte) == IF charSigned /\ byte >= 128 THEN byte - 256 ELSE byte

ClassifyFirstByteOnly(value) == CharToIndex(value[1])

\* The index of the counter a non-empty value selects:
\* if (value.size() == 8) pack[0]++ else pack[value.at(0)]++
Classify(value) ==
  IF Len(value) = 8 THEN 0 ELSE CharToIndex(value[1])

BumpNeighbour(p, t) ==
  [p EXCEPT ![t] = p[IF t = 0 THEN 0 ELSE t - 1] + 1]

\* pack[t]++
Bump(p, t) == [p EXCEPT ![t] = @ + 1]

estimate_a_scaled(p) ==
    4 + p[0] * 8 * 5 +
    4 + 1 + p[1] * 8 * 5 +
    4 + 1 + p[2] * 8 * 5 + 3 * 11 * 1 +
    4 + 1 + p[3] * 8 * 5 + 3 * 11 * 2 +
    4 + 1 + p[4] * 8 * 5 + 3 * 11 * 4 +
    4 + 1 + p[5] * 8 * 5 + 3 * 11 * 6

estimate_a(p) ==
    4 + p[0] * 8 +
    4 + 1 + p[1] * 8 * 5 +
    4 + 1 + p[2] * 8 * 5 + 3 * 11 * 1 +
    4 + 1 + p[3] * 8 * 5 + 3 * 11 * 2 +
    4 + 1 + p[4] * 8 * 5 + 3 * 11 * 4 +
    4 + 1 + p[5] * 8 * 5 + 3 * 11 * 6

estimate_b_nobranch(p) ==
    4 + p[0] * 9 +
    4 + 1 + p[1] * 9 * 5 +
    4 + 1 + p[2] * 9 * 5 +
    4 + 1 + p[3] * 9 * 5 +
    4 + 1 + p[4] * 9 * 5 +
    4 + 1 + p[5] * 9 * 5

estimate_b(p) ==
    4 + p[0] * 9 +
    4 + 1 + p[1] * 9 * 5 +
    4 + 1 + p[2] * 9 * 5 + 4 * 2 * 3 * 8 * 1 +
    4 + 1 + p[3] * 9 * 5 + 4 * 2 * 3 * 8 * 2 +
    4 + 1 + p[4] * 9 * 5 + 4 * 2 * 3 * 8 * 4 +
    4 + 1 + p[5] * 9 * 5 + 4 * 2 * 3 * 8 * 6

\* pack[0] + pack[1] + pack[2] + pack[3] + pack[4] + pack[5]
UniquePositions(p) == p[0] + p[1] + p[2] + p[3] + p[4] + p[5]

\* for (int i = 0; i < 5; i++) cout << "Pack format " << i << ...
PackLines(p) == [i \in 1..ReportedTags |-> Line("Pack format", i - 1, p[i - 1])]

\* Everything main writes after the scan loop.
ReportLines(p) ==
  PackLines(p) \o
  << Line("Unique positions", UniquePositions(p), 0),
     Line("", 0, 0),
     Line("Scheme A", estimate_a(p), 0),
     Line("Scheme B", estimate_b(p), 0),
     Line("B/A", estimate_b(p), estimate_a(p)) >>

\* ------------------------------------------------------------------ Init
Init ==
  /\ argc \in {1, 2}
  /\ canOpen \in BOOLEAN
  /\ charSigned \in BOOLEAN
  /\ store \in SeqsUpTo(Values, MaxRecords)
  /\ pc = "start"
  /\ cursor = FALSE
  /\ pos = 0
  /\ pack = ZeroPack
  /\ stray = {}
  /\ fault = FALSE
  /\ out = <<>>
  /\ exitCode = -1

env == <<argc, canOpen, charSigned, store>>

\* --------------------------------------------------------------- actions
\* if (argc <= 1) { usage; return 1; }
Usage ==
  /\ pc = "start"
  /\ argc <= 1
  /\ out' = Append(out, Line("Usage: stat <dbfile.kct>", 0, 0))
  /\ exitCode' = 1
  /\ pc' = "exit"
  /\ UNCHANGED <<env, cursor, pos, pack, stray, fault>>

OpenFailFallsThrough ==
  /\ pc = "start"
  /\ argc > 1
  /\ ~canOpen
  /\ out' = Append(out, Line("Could not open database.", 0, 0))
  /\ cursor' = TRUE
  /\ pc' = "scan"
  /\ UNCHANGED <<env, pos, pack, stray, fault, exitCode>>

\* if (!db.open(argv[1], OREADER)) { message; return 2; }
OpenFail ==
  /\ pc = "start"
  /\ argc > 1
  /\ ~canOpen
  /\ out' = Append(out, Line("Could not open database.", 0, 0))
  /\ exitCode' = 2
  /\ pc' = "exit"
  /\ UNCHANGED <<env, cursor, pos, pack, stray, fault>>

\* open succeeded: cursor created, cur->jump(), pack zero-initialised
OpenOk ==
  /\ pc = "start"
  /\ argc > 1
  /\ canOpen
  /\ cursor' = TRUE
  /\ pack' = ZeroPack
  /\ pc' = "scan"
  /\ UNCHANGED <<env, pos, stray, fault, out, exitCode>>

\* One iteration of the loop whose cur->get(&key, &value, true) succeeded.
ScanStep ==
  /\ pc = "scan"
  /\ pos < Len(store)
  /\ pos' = pos + 1
  /\ LET value == store[pos + 1] IN
       IF Len(value) = 0
       THEN \* value.at(0) throws std::out_of_range, nobody catches it
            /\ pc' = "aborted"
            /\ exitCode' = 128 + 6   \* killed by SIGABRT
            /\ UNCHANGED <<pack, stray>>
       ELSE LET t == Classify(value) IN
            IF t \in 0..(PackSize - 1)
            THEN /\ pack' = Bump(pack, t)
                 /\ UNCHANGED <<pc, exitCode, stray>>
            ELSE \* pack[t]++ outside the array: undefined behaviour
                 \/ /\ stray' = stray \cup {t}
                    /\ UNCHANGED <<pack, pc, exitCode>>
                 \/ /\ pc' = "crashed"
                    /\ exitCode' = 128 + 11  \* killed by SIGSEGV
                    /\ UNCHANGED <<pack, stray>>
  /\ UNCHANGED <<env, cursor, fault, out>>

\* cur->get returns false: the cursor is past the last record.
ScanEnd ==
  /\ pc = "scan"
  /\ pos = Len(store)
  /\ pc' = "report"
  /\ UNCHANGED <<env, cursor, pos, pack, stray, fault, out, exitCode>>

\* cur->get returns false: the read failed before the last record.
ScanFault ==
  /\ pc = "scan"
  /\ pos < Len(store)
  /\ fault' = TRUE
  /\ pc' = "report"
  /\ UNCHANGED <<env, cursor, pos, pack, stray, out, exitCode>>

\* The output after the loop, then return 0.
Report ==
  /\ pc = "report"
  /\ out' = out \o ReportLines(pack)
  /\ exitCode' = 0
  /\ pc' = "exit"
  /\ UNCHANGED <<env, cursor, pos, pack, stray, fault>>

Next ==
  \/ Usage
  \/ OpenFail
  \/ OpenOk
  \/ ScanStep
  \/ ScanEnd
  \/ ScanFault
  \/ Report

Spec == Init /\ [][Next]_vars

\* ------------------------------------------- estimators on their own
\* A store whose scan ends with the tally p: p[t] records of tag t.
TagValue(t) ==
  CASE t = 0 -> <<0>>
    [] t = 1 -> <<1, 7>>
    [] t = 2 -> <<2, 0, 0>>
    [] t = 3 -> <<3>>
    [] t = 4 -> <<4, 1>>
    [] OTHER -> <<5, 5>>

RECURSIVE Repeat(_, _)
Repeat(v, n) == IF n = 0 THEN <<>> ELSE Append(Repeat(v, n - 1), v)

RECURSIVE StoreOf(_, _)
StoreOf(p, t) ==
  IF t < 0 THEN <<>> ELSE StoreOf(p, t - 1) \o Repeat(TagValue(t), p[t])

\* main after a complete scan, for every tally with counts in 0..MaxCount
InitEst ==
  /\ argc = 2
  /\ canOpen = TRUE
  /\ charSigned \in BOOLEAN
  /\ pack \in [0..(PackSize - 1) -> 0..MaxCount]
  /\ store = StoreOf(pack, PackSize - 1)
  /\ pc = "report"
  /\ cursor = TRUE
  /\ pos = Len(store)
  /\ stray = {}
  /\ fault = FALSE
  /\ out = <<>>
  /\ exitCode = -1

NextEst == Report

SpecEst == InitEst /\ [][NextEst]_vars

\* ------------------------------------------------- vocabulary of claims
ReportKinds ==
  {"Pack format", "Unique positions", "Scheme A", "Scheme B", "B/A"}

HasReport == \E i \in 1..Len(out) : out[i].line \in ReportKinds

Printed(l) == { out[i] : i \in { j \in 1..Len(out) : out[j].line = l } }

Completed == pc = "exit" /\ exitCode = 0

\* A value the scan can classify without leaving pack[]: 8 bytes long, or
\* a first byte in 0..5.
InTally(value) ==
  Len(value) = 8 \/ (Len(value) > 0 /\ value[1] \in 0..(PackSize - 1))

\* A value of length other than 8 whose first byte is outside [0,6].
UnknownFormat(value) ==
  Len(value) # 8 /\ Len(value) > 0 /\ value[1] \notin 0..6

\* The tally of a sequence of values, folded as the scan loop folds it.
RECURSIVE Tally(_)
Tally(values) ==
  IF Len(values) = 0 THEN ZeroPack
  ELSE Bump(Tally(SubSeq(values, 1, Len(values) - 1)),
            Classify(values[Len(values)]))

Permuted(values, f) == [i \in 1..Len(values) |-> values[f[i]]]

\* ------------------------------------------------------------------- C1
\* C1: every step of the scan that consumes a record whose value is exactly
\* 8 bytes long increments pack[0] by one and changes no other counter,
\* whatever the bytes are; the scan goes on.
C1_Len8IsTag0 ==
  [][(pos' = pos + 1 /\ Len(store[pos + 1]) = 8)
       => /\ pack' = [pack EXCEPT ![0] = @ + 1]
          /\ stray' = stray
          /\ pc' = "scan"]_vars

\* An 8-byte value whose first byte is 0x02 has been counted, under tag 0.
C1_Witness ==
  /\ pos = 1
  /\ store[1] = Val8Tag2
  /\ pack[0] = 1
  /\ pack[2] = 0

\* ------------------------------------------------------------------- C2
\* C2: every step that consumes a record whose value length is not 8 and
\* whose first byte c lies in [0,6] increments the counter of tag c, which
\* the tally holds, by one and changes no other counter.
C2_FirstByteIsTag ==
  [][(/\ pos' = pos + 1
      /\ Len(store[pos + 1]) # 8
      /\ Len(store[pos + 1]) > 0
      /\ store[pos + 1][1] \in 0..6)
       => LET c == store[pos + 1][1] IN
          /\ c \in DOMAIN pack
          /\ c \in DOMAIN pack'
          /\ pack'[c] = pack[c] + 1
          /\ \A t \in DOMAIN pack \ {c} : pack'[t] = pack[t]]_vars

\* ------------------------------------------------------------------- C3
\* C3: once a record of unknown pack format (length not 8, first byte
\* outside [0,6]) has been consumed, the scan has stopped at that record,
\* the run does not end successfully and no report line is ever printed.
C3_UnknownFormatAborts ==
  \A i \in 1..pos :
    UnknownFormat(store[i])
      => /\ pos = i
         /\ pc = "exit" => exitCode # 0
         /\ ~HasReport

\* ------------------------------------------------------------------- C4
Header(t) == IF t = 0 THEN 4 ELSE 4 + 1

BranchMultiplier(t) ==
  CASE t = 2 -> 1
    [] t = 3 -> 2
    [] t = 4 -> 4
    [] t = 5 -> 6
    [] OTHER -> 0

RECURSIVE ClaimedTotal(_, _, _, _)
ClaimedTotal(p, width, unit, t) ==
  IF t < 0 THEN 0
  ELSE Header(t) + p[t] * width * 5 + BranchMultiplier(t) * unit
       + ClaimedTotal(p, width, unit, t - 1)

Slots(t) == IF t = 0 THEN 1 ELSE 5

RECURSIVE AmendedTotal(_, _, _, _)
AmendedTotal(p, width, unit, t) ==
  IF t < 0 THEN 0
  ELSE Header(t) + p[t] * width * Slots(t) + BranchMultiplier(t) * unit
       + AmendedTotal(p, width, unit, t - 1)

\* C4 (as claimed): the printed scheme totals are the sum over tags 0..5 of
\* header, pack[tag] x pointer_width x 5 for EVERY tag 0..5, and surcharge.
C4_Claimed ==
  Completed =>
    /\ Printed("Scheme A") =
         { Line("Scheme A", ClaimedTotal(pack, 8, 3 * 11, 5), 0) }
    /\ Printed("Scheme B") =
         { Line("Scheme B", ClaimedTotal(pack, 9, 4 * 2 * 3 * 8, 5), 0) }

\* C4 (amended): as claimed, except that the payload of tag 0 is
\* pack[0] x pointer_width (one slot); tags 1..5 carry the factor 5.
C4_Amended ==
  Completed =>
    /\ Printed("Scheme A") =
         { Line("Scheme A", AmendedTotal(pack, 8, 3 * 11, 5), 0) }
    /\ Printed("Scheme B") =
         { Line("Scheme B", AmendedTotal(pack, 9, 4 * 2 * 3 * 8, 5), 0) }

\* Both totals were printed for a tally with tag 0 and other tags present.
C4_Witness ==
  /\ Completed
  /\ pack[0] = 2
  /\ pack[1] = 1
  /\ pack[4] = 2
  /\ Printed("Scheme A") # {}
  /\ Printed("Scheme B") # {}

\* ------------------------------------------------------------------- C5
\* C5 (as claimed): for an empty store the report shows 29 for both
\* schemes and a ratio of 1.0.
C5_Claimed ==
  (Completed /\ Len(store) = 0) =>
    /\ pack = ZeroPack
    /\ Printed("Scheme A") = { Line("Scheme A", 29, 0) }
    /\ Printed("Scheme B") = { Line("Scheme B", 29, 0) }
    /\ \A r \in Printed("B/A") : r.a = r.b

\* C5 (amended): for an empty store every count is 0 and the report shows
\* 458 for scheme A (29 of headers + 429 of branch tables) and 2525 for
\* scheme B (29 + 2496); the ratio is 2525/458, above 5.
C5_Amended ==
  (Completed /\ Len(store) = 0) =>
    /\ pack = ZeroPack
    /\ Printed("Scheme A") = { Line("Scheme A", 29 + 429, 0) }
    /\ Printed("Scheme B") = { Line("Scheme B", 29 + 2496, 0) }
    /\ Printed("B/A") = { Line("B/A", 2525, 458) }
    /\ 2525 > 5 * 458

\* The report of an empty store has been printed.
C5_Witness ==
  /\ Completed
  /\ Len(store) = 0
  /\ Printed("B/A") # {}

\* ------------------------------------------------------------------- C6
\* C6: when a fault interrupts the scan after some but not all records
\* were consumed, the run ends as a failure and prints no report line; a
\* report is printed only after every record was visited.
C6_FaultMeansNoReport ==
  /\ (fault /\ pos > 0) => (~HasReport /\ (pc = "exit" => exitCode # 0))
  /\ (HasReport /\ pos > 0) => pos = Len(store)

\* ------------------------------------------------------------------- C7
\* C7: when the store cannot be opened, the run never creates a cursor,
\* never reads or classifies a record, never changes a counter and never
\* prints a report line; it ends with the failure message and exit code 2.
C7_OpenFailureBeforeScan ==
  (argc > 1 /\ ~canOpen) =>
    /\ pc \in {"start", "exit"}
    /\ cursor = FALSE
    /\ pos = 0
    /\ pack = ZeroPack
    /\ stray = {}
    /\ ~HasReport
    /\ pc = "exit" =>
         /\ exitCode = 2
         /\ out = << Line("Could not open database.", 0, 0) >>

\* The run has ended on an open failure of a store that holds records.
C7_Witness ==
  /\ argc > 1
  /\ ~canOpen
  /\ pc = "exit"
  /\ Len(store) = MaxRecords

C9_EveryTagHasLine ==
  Completed =>
    /\ \A t \in DOMAIN pack : Line("Pack format", t, pack[t]) \in Printed("Pack format")
    /\ Printed("Unique positions") # {}
    /\ Printed("Scheme A") # {}
    /\ Printed("Scheme B") # {}
    /\ Printed("B/A") # {}

\* ------------------------------------------------------------------ C10
\* C10: when every value is 8 bytes long or has a first byte in [0,5],
\* each consumed record increments exactly one counter by one, the
\* counters always sum to the number of records consumed, and the printed
\* 'Unique positions' is the number of records in the store.
C10_SumIsRecordCount ==
  [][(\A i \in 1..Len(store) : InTally(store[i]))
       => /\ pos' = pos + 1 =>
               \E t \in DOMAIN pack : pack' = [pack EXCEPT ![t] = @ + 1]
          /\ pos' = pos => pack' = pack
          /\ UniquePositions(pack') = pos'
          /\ (pc' = "exit" /\ exitCode' = 0) =>
               Printed("Unique positions")' =
                 { Line("Unique positions", Len(store), 0) }]_vars

====
